---------------------------- MODULE Spec2Model ----------------------------
(* Model of src/app.py (Sistema de Gestion de Pedidos - La Vega): the     *)
(* Shopify CSV grouper, the ingestion gate of upload_csv, the order       *)
(* lifecycle handlers and the shopping-list / picking queries, over the   *)
(* SQLite tables created by init_db.                                      *)
EXTENDS Integers, Sequences, FiniteSets, TLC

VARIABLES
  pedidos,            \* table pedidos: set of rows
  lineas_pedido,      \* table lineas_pedido: rows in rowid order
  seq_pedidos,        \* sqlite_sequence of pedidos (AUTOINCREMENT high-water mark)
  categorias,         \* table categorias: set of rows
  seq_categorias,     \* sqlite_sequence of categorias
  producto_categoria, \* table producto_categoria: set of rows
  content,            \* upload_csv's content: the rows of the file of the request
  orders,             \* upload_csv's orders: what parse_shopify_csv returned
  response,           \* the last request and what it returned
  resubmitted,        \* history: the last request uploaded the very file the
                      \* request before it uploaded
  requests,           \* the upload_csv requests in progress side by side: each
                      \* one's locals and the transaction of its connection
  reserved            \* the connection that holds the write lock of vega.db,
                      \* 0 if none does

vars == <<pedidos, lineas_pedido, seq_pedidos, categorias, seq_categorias,
          producto_categoria, content, orders, response, resubmitted,
          requests, reserved>>

-----------------------------------------------------------------------------
(* Bounds of the model *)

\* rows in one export file
MaxRows == 2
\* highest pedidos.id the AUTOINCREMENT counter may hand out
MaxPedidoId == 2
\* categories created through POST /api/categorias
MaxNuevasCategorias == 2
\* upload requests handled side by side
MaxRequests == 2

-----------------------------------------------------------------------------
(* Values *)

\* Python None / SQL NULL
None == "<None>"

\* the two status values of pedidos.status
Pendiente == "pendiente"
Completado == "completado"

\* the label of the COALESCE bucket of get_lista_compras and its sort key
SinCategoria == "Sin Categoría"
SinCategoriaOrden == 999

\* BINARY collation (code point order) of the text values the model uses;
\* NULL sorts before every value in an ascending ORDER BY
Collation ==
  << "#1001", "#1002",
     "2024-05-10", "2024-05-11",
     "Abarrotes", "Bebidas", "Carnes", "Congelados", "Frutas", "Leche",
     "Lácteos", "Manzana", "Otros", "Pera", "Sin Categoría", "Verduras" >>

Rank(s) ==
  IF s = None THEN 0
  ELSE CHOOSE i \in 1..Len(Collation) : Collation[i] = s

OrderNumbers == {"#1001", "#1002"}
Productos == {"Manzana", "Pera", "Leche"}

-----------------------------------------------------------------------------
(* Text to number conversions of parse_shopify_csv *)

\* int(text): the texts Python's int() accepts, with their values
IntValue == ("0" :> 0) @@ ("-1" :> -1) @@ ("2" :> 2) @@ ("3" :> 3)

\* float(text): the texts Python's float() accepts, with their values
FloatValue == ("1500" :> 1500) @@ ("990" :> 990)

\* int(row.get('Lineitem quantity', 1) or 1): an empty text is falsy and
\* gives 1; any other text goes to int(), which raises ValueError on a
\* text that is no integer literal
CantidadRaises(text) == text # "" /\ text \notin DOMAIN IntValue
Cantidad(text) == IF text = "" THEN 1 ELSE IntValue[text]

\* float(row.get('Total', 0) or 0)
TotalRaises(text) == text # "" /\ text \notin DOMAIN FloatValue
Total(text) == IF text = "" THEN 0 ELSE FloatValue[text]

-----------------------------------------------------------------------------
(* parse_note_attributes.  The annotation text is a sequence of lines    *)
(* "label: value" with a non-empty value.                                 *)

\* texts matching \d{4}-\d{2}-\d{2} (the shape only: no calendar check)
DateShaped == {"2024-05-10", "2024-05-11", "2024-13-40"}

ComunaLabel == "Comuna de Entrega"
FechaLabel == "Fecha de Entrega"

\* re.search(r'Comuna de Entrega:\s*([^\n]+)'): the first line with the label
ComunaMatches(note) ==
  {i \in 1..Len(note) : note[i].label = ComunaLabel}

\* re.search(r'Fecha de Entrega:\s*(\d{4}-\d{2}-\d{2})'): the first line with
\* the label whose value has the date shape
FechaMatches(note) ==
  {i \in 1..Len(note) : note[i].label = FechaLabel /\ note[i].value \in DateShaped}

First(S) == CHOOSE i \in S : \A j \in S : i <= j

parse_note_attributes(note_attrs) ==
  IF note_attrs = <<>>
  THEN [comuna |-> None, fecha_entrega |-> None]
  ELSE [comuna |-> IF ComunaMatches(note_attrs) = {} THEN None
                   ELSE note_attrs[First(ComunaMatches(note_attrs))].value,
        fecha_entrega |-> IF FechaMatches(note_attrs) = {} THEN None
                          ELSE note_attrs[First(FechaMatches(note_attrs))].value]

-----------------------------------------------------------------------------
(* parse_shopify_csv.  A row of the export carries the columns the        *)
(* grouper reads: Name, Note Attributes, Total, Lineitem name and         *)
(* Lineitem quantity.                                                     *)

\* the index of order_number among the keys of the orders dict, 0 if absent
KeyIndex(ords, order_number) ==
  IF \E k \in 1..Len(ords) : ords[k].order_number = order_number
  THEN CHOOSE k \in 1..Len(ords) : ords[k].order_number = order_number
  ELSE 0

\* orders[order_number] = {...}: the entry built from the first row of a key
NewOrder(row) ==
  [order_number |-> row.Name,
   comuna |-> parse_note_attributes(row.NoteAttributes).comuna,
   fecha_entrega |-> parse_note_attributes(row.NoteAttributes).fecha_entrega,
   total |-> Total(row.Total),
   items |-> <<>>]

\* orders[order_number]['items'].append({...})
NewItem(row) ==
  [producto |-> row.LineitemName, cantidad |-> Cantidad(row.LineitemQuantity)]

AppendItem(ords, k, item) ==
  [ords EXCEPT ![k].items = Append(@, item)]

\* an uncaught ValueError leaves parse_shopify_csv
Raised == [ok |-> FALSE, orders |-> <<>>]

RECURSIVE GroupRows(_, _, _)
GroupRows(rows, i, ords) ==
  IF i > Len(rows) THEN [ok |-> TRUE, orders |-> ords]
  ELSE
    LET row == rows[i]
        seen == KeyIndex(ords, row.Name) # 0
        orders1 == IF seen THEN ords ELSE Append(ords, NewOrder(row))
        k == KeyIndex(orders1, row.Name)
    IN  IF row.Name = "" THEN GroupRows(rows, i + 1, ords)
        ELSE IF ~seen /\ TotalRaises(row.Total) THEN Raised
        ELSE IF row.LineitemName = "" THEN GroupRows(rows, i + 1, orders1)
        ELSE IF CantidadRaises(row.LineitemQuantity) THEN Raised
        ELSE GroupRows(rows, i + 1, AppendItem(orders1, k, NewItem(row)))

parse_shopify_csv(rows) == GroupRows(rows, 1, <<>>)

-----------------------------------------------------------------------------
(* upload_csv: the ingestion gate                                         *)

\* SELECT id FROM pedidos WHERE order_number = ?
Existing(peds, order_number) ==
  {p \in peds : p.order_number = order_number}

\* INSERT INTO pedidos (...): status takes the column default 'pendiente'
PedidoRow(id, order) ==
  [id |-> id,
   order_number |-> order.order_number,
   comuna |-> order.comuna,
   fecha_entrega |-> order.fecha_entrega,
   total |-> order.total,
   status |-> Pendiente]

\* INSERT INTO lineas_pedido (...) for every item of the order
LineaRows(pedido_id, items) ==
  [j \in 1..Len(items) |->
     [pedido_id |-> pedido_id,
      producto |-> items[j].producto,
      cantidad |-> items[j].cantidad]]

\* Decision without the existence check
Decision_NoExistente(peds, order) ==
  IF order.fecha_entrega = None THEN "sin_fecha" ELSE "nuevo"

\* Decision without the delivery date check
Decision_NoFecha(peds, order) ==
  IF Existing(peds, order.order_number) # {} THEN "duplicado" ELSE "nuevo"

\* which branch of the loop body a candidate takes
Decision(peds, order) ==
  IF Existing(peds, order.order_number) # {} THEN "duplicado"
  ELSE IF order.fecha_entrega = None THEN "sin_fecha"
  ELSE "nuevo"

\* GateStep that writes the candidate over the stored order of its number
GateStep_Overwrite(db, order) ==
  LET d == Decision(db.pedidos, order)
      old == CHOOSE p \in db.pedidos : p.order_number = order.order_number
  IN  IF d = "duplicado"
      THEN [db EXCEPT
              !.pedidos = (@ \ {old}) \cup {PedidoRow(old.id, order)},
              !.lineas = SelectSeq(@, LAMBDA l : l.pedido_id # old.id)
                           \o LineaRows(old.id, order.items),
              !.duplicados = @ + 1]
      ELSE IF d = "sin_fecha" THEN [db EXCEPT !.sin_fecha = @ + 1]
      ELSE [db EXCEPT
              !.pedidos = @ \cup {PedidoRow(db.seq + 1, order)},
              !.lineas = @ \o LineaRows(db.seq + 1, order.items),
              !.seq = @ + 1,
              !.nuevos = @ + 1]

\* one iteration of "for order in orders", on the transaction's view db
GateStep(db, order) ==
  LET d == Decision(db.pedidos, order)
  IN  IF d = "duplicado" THEN [db EXCEPT !.duplicados = @ + 1]
      ELSE IF d = "sin_fecha" THEN [db EXCEPT !.sin_fecha = @ + 1]
      ELSE [db EXCEPT
              !.pedidos = @ \cup {PedidoRow(db.seq + 1, order)},
              !.lineas = @ \o LineaRows(db.seq + 1, order.items),
              !.seq = @ + 1,
              !.nuevos = @ + 1]

RECURSIVE Gate(_, _, _)
Gate(db, ords, i) ==
  IF i > Len(ords) THEN db
  ELSE Gate(GateStep(db, ords[i]), ords, i + 1)

\* the response slot; every request fills the same fields
Resp(op, arg, status, nuevos, duplicados, sin_fecha, total) ==
  [op |-> op, arg |-> arg, status |-> status, nuevos |-> nuevos,
   duplicados |-> duplicados, sin_fecha |-> sin_fecha, total |-> total]

NoResponse == Resp("none", 0, 0, 0, 0, 0, 0)

\* a request that carries no file: the locals of upload_csv do not exist
NoUpload ==
  /\ content' = <<>> /\ orders' = <<>> /\ resubmitted' = FALSE
  /\ UNCHANGED <<requests, reserved>>

\* (the handler first answers HTTP 400 to a file name that does not end in
\* .csv, without reading it; the files here are .csv files)
upload_csv(file) ==
  LET parsed == parse_shopify_csv(file)
      db0 == [pedidos |-> pedidos, lineas |-> lineas_pedido, seq |-> seq_pedidos,
              nuevos |-> 0, duplicados |-> 0, sin_fecha |-> 0]
      db == Gate(db0, parsed.orders, 1)
  IN  /\ content' = file
      /\ resubmitted' = (response.op = "upload" /\ content = file)
      /\ orders' = parsed.orders
      /\ IF ~parsed.ok
         THEN \* the ValueError leaves the handler before get_db(): HTTP 500
              /\ response' = Resp("upload", 0, 500, 0, 0, 0, 0)
              /\ UNCHANGED <<pedidos, lineas_pedido, seq_pedidos>>
         ELSE /\ db.seq <= MaxPedidoId
              /\ pedidos' = db.pedidos
              /\ lineas_pedido' = db.lineas
              /\ seq_pedidos' = db.seq
              /\ response' = Resp("upload", 0, 200, db.nuevos, db.duplicados,
                                  db.sin_fecha, Len(parsed.orders))
      /\ UNCHANGED <<categorias, seq_categorias, producto_categoria,
                     requests, reserved>>

-----------------------------------------------------------------------------
(* completar_pedido and eliminar_pedido                                   *)

\* an UPDATE that flips the status instead of setting it
SetCompletado_Toggle(p, pedido_id) ==
  IF p.id = pedido_id
  THEN [p EXCEPT !.status = IF @ = Pendiente THEN Completado ELSE Pendiente]
  ELSE p

\* UPDATE pedidos SET status = 'completado' WHERE id = ?
SetCompletado(p, pedido_id) ==
  IF p.id = pedido_id THEN [p EXCEPT !.status = Completado] ELSE p

completar_pedido(pedido_id) ==
  /\ pedidos' = {SetCompletado(p, pedido_id) : p \in pedidos}
  /\ response' = Resp("completar", 0, 200, 0, 0, 0, 0)
  /\ NoUpload
  /\ UNCHANGED <<lineas_pedido, seq_pedidos, categorias, seq_categorias,
                 producto_categoria>>

\* eliminar_pedido without its first DELETE
DeleteLineas_Ninguna(lineas, pedido_id) == lineas

\* DELETE FROM lineas_pedido WHERE pedido_id = ?
DeleteLineas(lineas, pedido_id) ==
  SelectSeq(lineas, LAMBDA l : l.pedido_id # pedido_id)

\* DELETE FROM pedidos WHERE id = ?
DeletePedido(peds, pedido_id) ==
  {p \in peds : p.id # pedido_id}

eliminar_pedido(pedido_id) ==
  /\ lineas_pedido' = DeleteLineas(lineas_pedido, pedido_id)
  /\ pedidos' = DeletePedido(pedidos, pedido_id)
  /\ response' = Resp("eliminar", 0, 200, 0, 0, 0, 0)
  /\ NoUpload
  /\ UNCHANGED <<seq_pedidos, categorias, seq_categorias, producto_categoria>>

-----------------------------------------------------------------------------
(* init_db, create_categoria and asignar_categoria                        *)

\* categorias_default, inserted in this order by init_db
categorias_default ==
  << <<"Frutas", 1>>, <<"Verduras", 2>>, <<"Congelados", 3>>, <<"Abarrotes", 4>>,
     <<"Lácteos", 5>>, <<"Carnes", 6>>, <<"Otros", 99>> >>

init_db ==
  /\ pedidos = {}
  /\ lineas_pedido = <<>>
  /\ seq_pedidos = 0
  /\ categorias = {[id |-> i, nombre |-> categorias_default[i][1],
                    orden |-> categorias_default[i][2]] :
                     i \in 1..Len(categorias_default)}
  /\ seq_categorias = Len(categorias_default)
  /\ producto_categoria = {}

Max(S) == CHOOSE x \in S : \A y \in S : y <= x

\* SELECT MAX(orden) FROM categorias, then "or 0"
MaxOrden(cats) ==
  IF cats = {} THEN 0 ELSE Max({c.orden : c \in cats})

create_categoria(nombre) ==
  /\ IF \E c \in categorias : c.nombre = nombre
     THEN \* UNIQUE(nombre): sqlite3.IntegrityError, answered with HTTP 400
          /\ response' = Resp("categoria", 0, 400, 0, 0, 0, 0)
          /\ UNCHANGED <<categorias, seq_categorias>>
     ELSE /\ seq_categorias < Len(categorias_default) + MaxNuevasCategorias
          /\ categorias' = categorias \cup
                {[id |-> seq_categorias + 1, nombre |-> nombre,
                  orden |-> MaxOrden(categorias) + 1]}
          /\ seq_categorias' = seq_categorias + 1
          /\ response' = Resp("categoria", seq_categorias + 1, 200, 0, 0, 0, 0)
  /\ NoUpload
  /\ UNCHANGED <<pedidos, lineas_pedido, seq_pedidos, producto_categoria>>

\* INSERT OR REPLACE INTO producto_categoria: the row that holds the same
\* producto (UNIQUE) is deleted, then the new row is inserted
ReplaceMapping(pcs, producto, categoria_id) ==
  {pc \in pcs : pc.producto # producto}
    \cup {[producto |-> producto, categoria_id |-> categoria_id]}

asignar_categoria(producto, categoria_id) ==
  /\ producto_categoria' = ReplaceMapping(producto_categoria, producto, categoria_id)
  /\ response' = Resp("asignar", 0, 200, 0, 0, 0, 0)
  /\ NoUpload
  /\ UNCHANGED <<pedidos, lineas_pedido, seq_pedidos, categorias, seq_categorias>>

-----------------------------------------------------------------------------
(* Queries: get_pedidos and get_lista_compras                             *)

\* lexicographic order on the integer triples used as ORDER BY keys
KeyLeq(a, b) ==
  \/ a[1] < b[1]
  \/ a[1] = b[1] /\ a[2] < b[2]
  \/ a[1] = b[1] /\ a[2] = b[2] /\ a[3] <= b[3]

\* the rows of S (records with a field key) in ascending key order
RECURSIVE OrderBy(_)
OrderBy(S) ==
  IF S = {} THEN <<>>
  ELSE LET m == CHOOSE x \in S : \A y \in S : KeyLeq(x.key, y.key)
       IN  <<m>> \o OrderBy(S \ {m})

\* SELECT * FROM lineas_pedido WHERE pedido_id = ?
ItemsOf(lineas, pedido_id) ==
  SelectSeq(lineas, LAMBDA l : l.pedido_id = pedido_id)

\* the tables a cursor of get_db() reads
Tables ==
  [pedidos |-> pedidos, lineas_pedido |-> lineas_pedido,
   producto_categoria |-> producto_categoria, categorias |-> categorias]

\* get_pedidos(fecha, status) on the tables t: a filter that is None (or
\* empty) is not applied; ORDER BY fecha_entrega, order_number; each row gets
\* its items
SelectPedidos(t, fecha, status) ==
  LET sel == {p \in t.pedidos :
                /\ (fecha # None => p.fecha_entrega = fecha)
                /\ (status # None => p.status = status)}
      keyed == {[key |-> <<Rank(p.fecha_entrega), Rank(p.order_number), 0>>,
                 pedido |-> p] : p \in sel}
      sorted == OrderBy(keyed)
  IN  [i \in 1..Len(sorted) |->
         [pedido |-> sorted[i].pedido,
          items |-> ItemsOf(t.lineas_pedido, sorted[i].pedido.id)]]

get_pedidos(fecha, status) == SelectPedidos(Tables, fecha, status)

\* the all-NULL row a LEFT JOIN supplies when nothing matches; a NULL of an
\* integer column is written 0 (no id is 0) and told by the row's NULL text
NullMapping == [producto |-> None, categoria_id |-> 0]
NullCategoria == [id |-> 0, nombre |-> None, orden |-> 0]

\* LEFT JOIN producto_categoria pc ON lp.producto = pc.producto
JoinMapping(t, producto) ==
  LET m == {pc \in t.producto_categoria : pc.producto = producto}
  IN  IF m = {} THEN {NullMapping} ELSE m

\* LEFT JOIN categorias c ON pc.categoria_id = c.id
JoinCategoria(t, pc) ==
  LET m == {c \in t.categorias : c.id = pc.categoria_id}
  IN  IF m = {} THEN {NullCategoria} ELSE m

\* the WHERE clause without the status condition
ListaWhere_SinStatus(p, fecha) == p.fecha_entrega = fecha

\* WHERE p.fecha_entrega = ? AND p.status = 'pendiente'
ListaWhere(p, fecha) ==
  p.fecha_entrega = fecha /\ p.status = Pendiente

\* FROM lineas_pedido lp JOIN pedidos p ON lp.pedido_id = p.id LEFT JOIN ...
\* WHERE ...: one record per joined row (linea is the position of lp in the
\* table, which keeps the rows of equal line items apart)
JoinedRows(t, fecha) ==
  UNION {
    UNION {
      UNION {
        {[linea |-> j, pedido |-> p.id,
          producto |-> t.lineas_pedido[j].producto,
          cantidad |-> t.lineas_pedido[j].cantidad, c |-> c] :
            c \in JoinCategoria(t, pc)} :
        pc \in JoinMapping(t, t.lineas_pedido[j].producto)} :
      p \in {q \in t.pedidos :
               q.id = t.lineas_pedido[j].pedido_id /\ ListaWhere(q, fecha)}} :
    j \in DOMAIN t.lineas_pedido}

RECURSIVE SumCantidad(_)
SumCantidad(S) ==
  IF S = {} THEN 0
  ELSE LET r == CHOOSE x \in S : TRUE
       IN  r.cantidad + SumCantidad(S \ {r})

\* COALESCE(c.nombre, 'Sin Categoría'), COALESCE(c.orden, 999)
CoalesceNombre(c) == IF c.nombre = None THEN SinCategoria ELSE c.nombre
CoalesceOrden(c) == IF c.nombre = None THEN SinCategoriaOrden ELSE c.orden

\* one group of GROUP BY lp.producto: SUM(lp.cantidad), and the bare columns
\* of c taken from one row of the group
GroupRow(rows, prod) ==
  LET grupo == {r \in rows : r.producto = prod}
      bare == (CHOOSE r \in grupo : TRUE).c
  IN  [key |-> <<CoalesceOrden(bare), Rank(bare.nombre), Rank(prod)>>,
       producto |-> prod,
       cantidad_total |-> SumCantidad(grupo),
       categoria |-> CoalesceNombre(bare)]

\* the SELECT of get_lista_compras:
\* GROUP BY lp.producto ORDER BY categoria_orden, c.nombre, lp.producto
ListaItems(t, fecha) ==
  LET rows == JoinedRows(t, fecha)
  IN  OrderBy({GroupRow(rows, prod) : prod \in {r.producto : r \in rows}})

\* the position of key cat in the dict por_categoria, 0 if absent
CatIndex(por_categoria, cat) ==
  IF \E k \in 1..Len(por_categoria) : por_categoria[k].categoria = cat
  THEN CHOOSE k \in 1..Len(por_categoria) : por_categoria[k].categoria = cat
  ELSE 0

\* "for item in items": por_categoria[cat].append({producto, cantidad}); a
\* Python dict keeps its keys in insertion order
RECURSIVE PorCategoria(_, _, _)
PorCategoria(items, i, acc) ==
  IF i > Len(items) THEN acc
  ELSE LET cat == items[i].categoria
           entry == [producto |-> items[i].producto,
                     cantidad |-> items[i].cantidad_total]
           k == CatIndex(acc, cat)
       IN  PorCategoria(items, i + 1,
             IF k = 0
             THEN Append(acc, [categoria |-> cat, productos |-> <<entry>>])
             ELSE [acc EXCEPT ![k].productos = Append(@, entry)])

\* get_lista_compras(fecha) on the tables t
ListaCompras(t, fecha) == PorCategoria(ListaItems(t, fecha), 1, <<>>)

get_lista_compras(fecha) == ListaCompras(Tables, fecha)

-----------------------------------------------------------------------------
(* Export files                                                           *)

Row(name, note, total, producto, cantidad) ==
  [Name |-> name, NoteAttributes |-> note, Total |-> total,
   LineitemName |-> producto, LineitemQuantity |-> cantidad]

Line(label, value) == [label |-> label, value |-> value]

\* annotation texts: empty; labels without a usable date; a date; a date
\* that follows an occurrence of the label the pattern does not match
NoNote == <<>>
NoteSinFecha == <<Line(ComunaLabel, "Maipú"), Line(FechaLabel, "mañana")>>
NoteD1 == <<Line(ComunaLabel, "Providencia"), Line(FechaLabel, "2024-05-10")>>
NoteD2 == <<Line(FechaLabel, "mañana"), Line(FechaLabel, "2024-05-11")>>

\* all files of at most MaxRows rows over a set of rows
FilesOver(rows) ==
  UNION {[1..n -> rows] : n \in 0..MaxRows}

\* the exports the whole-system specification uploads
ExportA == <<Row("#1001", NoteD1, "1500", "Manzana", "2"),
             Row("#1001", NoteD2, "990", "Pera", "")>>
ExportB == <<Row("#1002", NoteD1, "990", "Leche", "3"),
             Row("#1002", NoteD1, "990", "Manzana", "")>>
ExportC == <<Row("#1002", NoteD2, "", "Manzana", "0"),
             Row("#1001", NoteSinFecha, "", "Pera", "2")>>
ExportD == <<Row("#1001", NoteD1, "", "Pera", "x"),
             Row("#1002", NoteD1, "", "Leche", "")>>
ExportE == <<Row("", NoteD1, "", "Pera", "2"),
             Row("#1001", NoteD2, "", "", "")>>
Exports == {ExportA, ExportB, ExportC, ExportD, ExportE}

\* the rows of the grouper specification
GrouperRows ==
  {Row(n, note, t, p, q) :
     n \in OrderNumbers \cup {""}, note \in {NoNote, NoteD1, NoteD2},
     t \in {"", "1500", "abc"}, p \in {"", "Manzana", "Pera"},
     q \in {"", "0", "x"}}

\* the inputs of the handlers
PedidoIds == 1..MaxPedidoId
NombresCategoria == {"Bebidas", SinCategoria, "Frutas"}
CategoriaIds == {8, 9}
Asignables == {"Manzana", "Pera"}

-----------------------------------------------------------------------------
(* Specifications                                                         *)

Init ==
  /\ init_db
  /\ content = <<>>
  /\ orders = <<>>
  /\ response = NoResponse
  /\ resubmitted = FALSE
  /\ requests = <<>>
  /\ reserved = 0

Upload == \E file \in Exports : upload_csv(file)
Completar == \E pedido_id \in PedidoIds : completar_pedido(pedido_id)
Eliminar == \E pedido_id \in PedidoIds : eliminar_pedido(pedido_id)
CrearCategoria == \E nombre \in NombresCategoria : create_categoria(nombre)
AsignarCategoria ==
  \E producto \in Asignables, categoria_id \in CategoriaIds :
    asignar_categoria(producto, categoria_id)

Next ==
  \/ Upload
  \/ Completar
  \/ Eliminar
  \/ CrearCategoria
  \/ AsignarCategoria

\* the whole system: every handler, on the sample exports
Spec == Init /\ [][Next]_vars

\* parse_shopify_csv(content) alone
Group ==
  /\ response.op = "none"
  /\ orders' = parse_shopify_csv(content).orders
  /\ response' = Resp("parse", 0, IF parse_shopify_csv(content).ok THEN 200 ELSE 500,
                      0, 0, 0, 0)
  /\ UNCHANGED <<pedidos, lineas_pedido, seq_pedidos, categorias, seq_categorias,
                 producto_categoria, content, resubmitted, requests, reserved>>

InitGrouper ==
  /\ init_db
  /\ content \in FilesOver(GrouperRows)
  /\ orders = <<>>
  /\ response = NoResponse
  /\ resubmitted = FALSE
  /\ requests = <<>>
  /\ reserved = 0

\* the grouper as a function of its input
SpecGrouper == InitGrouper /\ [][Group]_vars

-----------------------------------------------------------------------------
(* upload_csv statement by statement, for uploads handled side by side by *)
(* server processes that share vega.db.  Every request opens its own      *)
(* connection (get_db).  sqlite3 runs a SELECT outside any transaction,   *)
(* on the committed tables; it opens a transaction before the first       *)
(* INSERT of a connection, which takes the write lock of the database     *)
(* file and keeps it until commit() or until the connection is dropped.   *)

\* the requests handled side by side
Requests == 1..MaxRequests

\* a connection without an open transaction
NoTransaction == [pedidos |-> {}, lineas |-> <<>>, seq |-> 0]

\* a request that has not yet read its file; log is history: the branch
\* each candidate took, in candidate order
NewRequest ==
  [pc |-> "read", content |-> <<>>, orders |-> <<>>, i |-> 1,
   nuevos |-> 0, duplicados |-> 0, sin_fecha |-> 0,
   tx |-> NoTransaction, status |-> 0, log |-> <<>>]

\* what the statements of request r read: its own transaction if it has
\* one open, the committed tables otherwise
View(r) ==
  IF reserved = r THEN requests[r].tx
  ELSE [pedidos |-> pedidos, lineas |-> lineas_pedido, seq |-> seq_pedidos]

\* "for order in orders": the next statement after candidate i is done
LoopPc(req) == IF req.i > Len(req.orders) THEN "commit" ELSE "select"

\* continue / the end of the loop body: on to the next candidate
NextOrder(req, decision) ==
  LET req1 == [req EXCEPT !.i = @ + 1, !.log = Append(@, decision)]
  IN  [req1 EXCEPT !.pc = LoopPc(req1)]

\* an exception leaves the handler: HTTP 500; the connection is dropped
\* with its transaction uncommitted, which rolls it back
Abort(req) ==
  [req EXCEPT !.pc = "done", !.status = 500, !.tx = NoTransaction]

\* content = await file.read(); orders = parse_shopify_csv(content)
upload_read(r, file) ==
  LET parsed == parse_shopify_csv(file)
      req == [requests[r] EXCEPT !.content = file, !.orders = parsed.orders]
  IN  /\ requests[r].pc = "read"
      /\ requests' = [requests EXCEPT ![r] =
                        IF parsed.ok THEN [req EXCEPT !.pc = LoopPc(req)]
                        ELSE Abort(req)]
      /\ UNCHANGED <<pedidos, lineas_pedido, seq_pedidos, categorias,
                     seq_categorias, producto_categoria, content, orders,
                     response, resubmitted, reserved>>

\* SELECT id FROM pedidos WHERE order_number = ?, and the two tests on
\* existing and on order['fecha_entrega']
upload_select(r) ==
  LET req == requests[r]
      d == Decision(View(r).pedidos, req.orders[req.i])
  IN  /\ req.pc = "select"
      /\ requests' = [requests EXCEPT ![r] =
           IF d = "duplicado"
           THEN NextOrder([req EXCEPT !.duplicados = @ + 1], d)
           ELSE IF d = "sin_fecha"
           THEN NextOrder([req EXCEPT !.sin_fecha = @ + 1], d)
           ELSE [req EXCEPT !.pc = "insert"]]
      /\ UNCHANGED <<pedidos, lineas_pedido, seq_pedidos, categorias,
                     seq_categorias, producto_categoria, content, orders,
                     response, resubmitted, reserved>>

\* INSERT INTO pedidos (...) and the INSERTs INTO lineas_pedido of the
\* candidate.  The statement waits while another connection holds the write
\* lock; UNIQUE(order_number) is checked by the INSERT itself, on the tables
\* as they are then, and raises sqlite3.IntegrityError, which nothing
\* catches.  The line item INSERTs run under the lock the first INSERT took.
upload_insert(r) ==
  LET req == requests[r]
      order == req.orders[req.i]
      db == View(r)
      tx == [pedidos |-> db.pedidos \cup {PedidoRow(db.seq + 1, order)},
             lineas |-> db.lineas \o LineaRows(db.seq + 1, order.items),
             seq |-> db.seq + 1]
  IN  /\ req.pc = "insert"
      /\ reserved \in {0, r}
      /\ IF Existing(db.pedidos, order.order_number) # {}
         THEN /\ requests' = [requests EXCEPT ![r] = Abort(req)]
              /\ reserved' = 0
         ELSE /\ requests' = [requests EXCEPT ![r] =
                   NextOrder([req EXCEPT !.tx = tx, !.nuevos = @ + 1], "nuevo")]
              /\ reserved' = r
      /\ UNCHANGED <<pedidos, lineas_pedido, seq_pedidos, categorias,
                     seq_categorias, producto_categoria, content, orders,
                     response, resubmitted>>

\* conn.commit(); conn.close(); return {...}
upload_commit(r) ==
  LET req == requests[r]
  IN  /\ req.pc = "commit"
      /\ IF reserved = r
         THEN /\ pedidos' = req.tx.pedidos
              /\ lineas_pedido' = req.tx.lineas
              /\ seq_pedidos' = req.tx.seq
              /\ reserved' = 0
         ELSE UNCHANGED <<pedidos, lineas_pedido, seq_pedidos, reserved>>
      /\ requests' = [requests EXCEPT ![r] =
                        [req EXCEPT !.pc = "done", !.status = 200,
                                    !.tx = NoTransaction]]
      /\ UNCHANGED <<categorias, seq_categorias, producto_categoria, content,
                     orders, response, resubmitted>>

ReadFile == \E r \in Requests, file \in Exports : upload_read(r, file)
SelectExisting == \E r \in Requests : upload_select(r)
InsertPedido == \E r \in Requests : upload_insert(r)
CommitUpload == \E r \in Requests : upload_commit(r)

NextConcurrent ==
  \/ ReadFile
  \/ SelectExisting
  \/ InsertPedido
  \/ CommitUpload

InitConcurrent ==
  /\ init_db
  /\ content = <<>>
  /\ orders = <<>>
  /\ response = NoResponse
  /\ resubmitted = FALSE
  /\ requests = [r \in Requests |-> NewRequest]
  /\ reserved = 0

\* uploads of the sample exports, their statements interleaved
SpecConcurrent == InitConcurrent /\ [][NextConcurrent]_vars

-----------------------------------------------------------------------------
(* Properties                                                             *)

\* the stored orders with a given order number
Stored(n) == {p \in pedidos : p.order_number = n}

\* the upload just handled returned its counts
Counted == response.op = "upload" /\ response.status = 200

\* candidates of the upload just handled, by what the store holds
StoredCandidates == {i \in 1..Len(orders) : Stored(orders[i].order_number) # {}}
UndatedCandidates ==
  {i \in 1..Len(orders) :
     orders[i].fecha_entrega = None /\ Stored(orders[i].order_number) = {}}

\* C1 as stated: the second of two consecutive ingestions of the identical
\* file returns accepted = 0 and duplicate = total.
C1_DuplicateIsTotal ==
  (resubmitted /\ Counted) =>
     response.nuevos = 0 /\ response.duplicados = response.total

\* C1 amended: the second of two consecutive ingestions of the identical file
\* returns accepted = 0 and duplicate = total - rejected_no_date; the
\* duplicates are the candidates whose order number is stored, the rejected
\* ones the candidates without a delivery date whose number is not stored.
C1_Resubmission ==
  (resubmitted /\ Counted) =>
     /\ response.nuevos = 0
     /\ response.total = Len(orders)
     /\ response.duplicados + response.sin_fecha = response.total
     /\ response.duplicados = Cardinality(StoredCandidates)
     /\ response.sin_fecha = Cardinality(UndatedCandidates)

\* a resubmitted file with a stored candidate and an undated one
C1_Witness ==
  /\ resubmitted /\ Counted
  /\ response.duplicados > 0
  /\ response.sin_fecha > 0

\* C2: no stored order has an absent delivery date, no stored line item
\* belongs to anything but a stored order, and no order query returns an
\* order without a delivery date or finds one under the absent date.
C2_NoUndatedStored ==
  /\ \A p \in pedidos : p.fecha_entrega \in DateShaped
  /\ \A j \in DOMAIN lineas_pedido :
        \E p \in pedidos : p.id = lineas_pedido[j].pedido_id
  /\ \A i \in DOMAIN get_pedidos(None, None) :
        get_pedidos(None, None)[i].pedido.fecha_entrega # None
  /\ get_lista_compras(None) = <<>>

\* an upload rejected an undated candidate while the store holds orders
C2_Witness ==
  /\ Counted
  /\ response.sin_fecha > 0
  /\ pedidos # {}
  /\ lineas_pedido # <<>>

\* the positions of the line items of product prod whose parent order is
\* pending and is delivered on fecha
PendingLineas(fecha, prod) ==
  {j \in DOMAIN lineas_pedido :
     /\ lineas_pedido[j].producto = prod
     /\ \E p \in pedidos :
          /\ p.id = lineas_pedido[j].pedido_id
          /\ p.status = Pendiente
          /\ p.fecha_entrega = fecha}

RECURSIVE SumLineas(_)
SumLineas(J) ==
  IF J = {} THEN 0
  ELSE LET j == CHOOSE x \in J : TRUE
       IN  lineas_pedido[j].cantidad + SumLineas(J \ {j})

\* where product prod appears in a shopping list
Entries(lista, prod) ==
  UNION {{<<k, m>> : m \in {x \in DOMAIN lista[k].productos :
                                lista[k].productos[x].producto = prod}} :
           k \in DOMAIN lista}

EntryCantidad(lista, km) == lista[km[1]].productos[km[2]].cantidad

\* C3: for every date and product, the shopping list reports the product
\* once, with the sum of the quantities of its line items under pending
\* orders of that date, and does not report a product without such an item.
C3_ListaSums ==
  \A fecha \in DateShaped, prod \in Productos :
    LET lista == get_lista_compras(fecha)
        found == Entries(lista, prod)
    IN  IF PendingLineas(fecha, prod) = {}
        THEN found = {}
        ELSE /\ Cardinality(found) = 1
             /\ \A km \in found :
                  EntryCantidad(lista, km) = SumLineas(PendingLineas(fecha, prod))

\* a product summed over the line items of two pending orders of one date
\* while it is mapped to a category
C3_Witness ==
  \E fecha \in DateShaped, prod \in Productos :
    /\ Cardinality(PendingLineas(fecha, prod)) >= 2
    /\ \E pc \in producto_categoria : pc.producto = prod
    /\ Entries(get_lista_compras(fecha), prod) # {}

\* C4: an upload leaves every stored order whose number is among its
\* candidates as it was: the same row (fields and status) and the same items.
C4_DuplicateUntouched ==
  [][response'.op = "upload" =>
       \A p \in pedidos :
         (\E i \in DOMAIN orders' : orders'[i].order_number = p.order_number) =>
            /\ p \in pedidos'
            /\ \A q \in pedidos' : q.order_number = p.order_number => q = p
            /\ ItemsOf(lineas_pedido', p.id) = ItemsOf(lineas_pedido, p.id)]_vars

\* an upload carried a candidate for a stored number with another delivery
\* date or other items than the stored order has
C4_Witness ==
  /\ Counted
  /\ \E i \in DOMAIN orders : \E p \in pedidos :
       /\ p.order_number = orders[i].order_number
       /\ p.fecha_entrega # orders[i].fecha_entrega
       /\ ItemsOf(lineas_pedido, p.id) # LineaRows(p.id, orders[i].items)

\* C5: a stored order enters the store pending, and an order that is
\* completed stays completed as long as it is stored.
C5_StatusOneWay ==
  [][\A q \in pedidos' :
       /\ (\A p \in pedidos : p.id # q.id) => q.status = Pendiente
       /\ \A p \in pedidos :
            (p.id = q.id \/ p.order_number = q.order_number) =>
               (p.status = Completado => q.status = Completado)]_vars

\* a completed order whose number was just ingested again
C5_Witness ==
  /\ Counted
  /\ \E p \in pedidos : \E i \in DOMAIN orders :
       p.status = Completado /\ orders[i].order_number = p.order_number

\* the products of a date that resolve to no category
Unmapped(fecha) ==
  {prod \in Productos :
     /\ PendingLineas(fecha, prod) # {}
     /\ \A pc \in producto_categoria :
          pc.producto = prod => \A c \in categorias : c.id # pc.categoria_id}

\* the real categories an entry of a shopping list shows: those of its name
\* that one of its products is mapped to
EntryCategorias(lista, k) ==
  {c \in categorias :
     /\ c.nombre = lista[k].categoria
     /\ \E m \in DOMAIN lista[k].productos : \E pc \in producto_categoria :
          /\ pc.producto = lista[k].productos[m].producto
          /\ pc.categoria_id = c.id}

\* C6: in every shopping list the real categories come in ascending
\* display order (ties by name), and the bucket that holds the unmapped
\* products comes after every real category.
C6_CategoryOrder ==
  \A fecha \in DateShaped :
    LET lista == get_lista_compras(fecha)
    IN  /\ \A k1, k2 \in DOMAIN lista :
             \A c1 \in EntryCategorias(lista, k1) :
               \A c2 \in EntryCategorias(lista, k2) :
                 k1 < k2 =>
                   KeyLeq(<<c1.orden, Rank(c1.nombre), 0>>,
                          <<c2.orden, Rank(c2.nombre), 0>>)
        /\ \A prod \in Unmapped(fecha) :
             \A km \in Entries(lista, prod) :
               \A k \in DOMAIN lista :
                 (k # km[1] /\ EntryCategorias(lista, k) # {}) => k < km[1]

\* the quantity a stored order contributes to the shopping list of its date
Contribution(p, prod) ==
  IF p.status # Pendiente THEN 0
  ELSE SumLineas({j \in DOMAIN lineas_pedido :
                    /\ lineas_pedido[j].pedido_id = p.id
                    /\ lineas_pedido[j].producto = prod})

RECURSIVE SumEntries(_, _)
SumEntries(lista, S) ==
  IF S = {} THEN 0
  ELSE LET km == CHOOSE x \in S : TRUE
       IN  EntryCantidad(lista, km) + SumEntries(lista, S \ {km})

ListaCantidad(lista, prod) == SumEntries(lista, Entries(lista, prod))

\* C7: a delete removes the order and its line items, keeps every other
\* order and its items, and takes exactly the order's quantities out of the
\* shopping list and the order out of the picking list of its date.
C7_DeleteCascade ==
  [][response'.op = "eliminar" =>
       \A p \in pedidos \ pedidos' :
         /\ \A q \in pedidos' : q.id # p.id /\ q.order_number # p.order_number
         /\ \A j \in DOMAIN lineas_pedido' : lineas_pedido'[j].pedido_id # p.id
         /\ \A q \in pedidos \ {p} :
              /\ q \in pedidos'
              /\ ItemsOf(lineas_pedido', q.id) = ItemsOf(lineas_pedido, q.id)
         /\ \A armado \in {SelectPedidos(Tables', p.fecha_entrega, Pendiente)} :
              \A i \in DOMAIN armado : armado[i].pedido.id # p.id
         /\ \A antes \in {get_lista_compras(p.fecha_entrega)} :
              \A despues \in {ListaCompras(Tables', p.fecha_entrega)} :
                \A prod \in Productos :
                  ListaCantidad(despues, prod)
                    = ListaCantidad(antes, prod) - Contribution(p, prod)]_vars

\* an order was deleted while another order and its items stay stored
C7_Witness ==
  /\ response.op = "eliminar"
  /\ Cardinality(pedidos) = 1
  /\ seq_pedidos = 2
  /\ lineas_pedido # <<>>

\* the rows of a file that carry order number n
RowsOf(file, n) == {i \in DOMAIN file : file[i].Name = n}

\* every numeric text of the rows of order n is a number
WellFormed(file, n) ==
  \A i \in RowsOf(file, n) :
    ~TotalRaises(file[i].Total) /\ ~CantidadRaises(file[i].LineitemQuantity)

\* the first row of order n carries a delivery date
Dated(file, n) ==
  /\ RowsOf(file, n) # {}
  /\ parse_note_attributes(file[First(RowsOf(file, n))].NoteAttributes).fecha_entrega
       # None

\* C8: an upload persists every order of its file that is well formed, new
\* and dated, and counts it as accepted, whatever the other orders of the
\* file are.
C8_FailSoft ==
  [][response'.op = "upload" =>
       LET accepted == {n \in OrderNumbers :
                          /\ WellFormed(content', n)
                          /\ Dated(content', n)
                          /\ Stored(n) = {}}
       IN  /\ \A n \in accepted : \E p \in pedidos' : p.order_number = n
           /\ response'.nuevos >= Cardinality(accepted)]_vars

\* the distinct non-empty order numbers of a file, in first-seen order
RECURSIVE FirstSeen(_, _, _)
FirstSeen(file, i, acc) ==
  IF i > Len(file) THEN acc
  ELSE FirstSeen(file, i + 1,
         IF file[i].Name = "" \/ \E k \in DOMAIN acc : acc[k] = file[i].Name
         THEN acc ELSE Append(acc, file[i].Name))

\* the rows of order n that name a product, in row order
ItemRows(file, n) ==
  SelectSeq(file, LAMBDA r : r.Name = n /\ r.LineitemName # "")

\* C9: for every sequence of rows the grouper returns one candidate per
\* distinct non-empty order number, in first-seen order, with the scalar
\* fields of the first row of that number and one item per row of that
\* number that names a product, in row order.
C9_Grouper ==
  response.op = "parse" =>
    /\ response.status = 200
    /\ [k \in DOMAIN orders |-> orders[k].order_number] = FirstSeen(content, 1, <<>>)
    /\ \A k \in DOMAIN orders :
         LET n == orders[k].order_number
             first == content[First(RowsOf(content, n))]
             rows == ItemRows(content, n)
         IN  /\ orders[k].fecha_entrega
                  = parse_note_attributes(first.NoteAttributes).fecha_entrega
             /\ orders[k].comuna = parse_note_attributes(first.NoteAttributes).comuna
             /\ orders[k].total = Total(first.Total)
             /\ Len(orders[k].items) = Len(rows)
             /\ \A m \in DOMAIN rows :
                  /\ orders[k].items[m].producto = rows[m].LineitemName
                  /\ orders[k].items[m].cantidad = Cantidad(rows[m].LineitemQuantity)

\* C10: every stored line item has a quantity of at least 1.
C10_PositiveCantidad ==
  \A j \in DOMAIN lineas_pedido : lineas_pedido[j].cantidad >= 1

\* the requests whose file holds a candidate with order number n and a
\* delivery date
Carriers(n) ==
  {r \in Requests :
     \E k \in 1..Len(requests[r].orders) :
        /\ requests[r].orders[k].order_number = n
        /\ requests[r].orders[k].fecha_entrega # None}

\* request r took branch d for its candidate with order number n
Logged(r, n, d) ==
  \E k \in 1..Len(requests[r].log) :
     requests[r].orders[k].order_number = n /\ requests[r].log[k] = d

\* C11: the store never holds two orders with the same order number, and
\* when ingestions whose files both hold the same order number with a
\* delivery date, not stored before, run side by side with their statements
\* interleaved in any order, all of them complete, the order is stored
\* exactly once, exactly one ingestion counted it as accepted and every
\* other one counted it as duplicate.
C11_ConcurrentIngest ==
  /\ \A p, q \in pedidos : p.order_number = q.order_number => p = q
  /\ \A n \in OrderNumbers :
       (/\ Cardinality(Carriers(n)) >= 2
        /\ \A r \in Carriers(n) : requests[r].pc = "done")
       => /\ \A r \in Carriers(n) : requests[r].status = 200
          /\ Cardinality(Stored(n)) = 1
          /\ Cardinality({r \in Carriers(n) : Logged(r, n, "nuevo")}) = 1
          /\ \A r \in Carriers(n) :
                Logged(r, n, "nuevo") \/ Logged(r, n, "duplicado")

=============================================================================
